---- MODULE Spec2Model ----
(***************************************************************************)
(* Model of the cumulative density filter of contractrabbit/cr-components: *)
(* the binary-search utilities of packages/ui/src/lib/cumulative-utils.ts  *)
(* and the drag state machine of the CumulativeDensityFilter component.    *)
(*                                                                         *)
(* Numbers.  The input values are integers.  A threshold is an exact real: *)
(*   [k |-> "lin", n, d]          the rational n / d  (d > 0, lowest terms) *)
(*   [k |-> "geo", lo, hi, n, d]  exp(ln lo + (n/d) * (ln hi - ln lo)),    *)
(*                                kept only when that real is irrational   *)
(*   [k |-> "near", n, d, side]   the double next below (side = -1) or     *)
(*                                above (side = 1) the rational n / d: what *)
(*                                Math.exp may return for the real n / d   *)
(* so every comparison of the code is decided exactly with integers.       *)
(* Math.log and Math.exp are implementation-approximated; the component    *)
(* model (Spec) works in exact reals, the handler arithmetic (SpecMove)    *)
(* lets Math.exp return any of the doubles around the real result.         *)
(*                                                                         *)
(* Scheduling.  A setState call only queues an update; React renders it    *)
(* later, and the model lets any event arrive before that render.  A       *)
(* render, its commit and the effects it triggers are one step.            *)
(***************************************************************************)
EXTENDS Integers, Sequences, FiniteSets, TLC

\* ------------------------------------------------------------- bounds
MaxLen == 4        \* longest sorted sequence handed to the pure functions
MaxVal == 3        \* the elements of those sequences are 0 .. MaxVal
MaxX == 4          \* clientX of a pointer event is 0 .. MaxX
RectLeft == 1      \* left edge of the plotting rectangle
PlotWidth == 2     \* width of the plotting rectangle when it has one

\* ------------------------------------------------------------ numbers
Abs(n) == IF n < 0 THEN -n ELSE n

RECURSIVE GCD(_, _)
GCD(a, b) == IF b = 0 THEN a ELSE GCD(b, a % b)

RECURSIVE Pow(_, _)
Pow(b, e) == IF e = 0 THEN 1 ELSE b * Pow(b, e - 1)

\* the rational n / d, d > 0, in lowest terms
Rat(n, d) == LET g == GCD(Abs(n), d) IN [k |-> "lin", n |-> n \div g, d |-> d \div g]

\* v < t and v <= t for an integer v and a number t; a "near" number is the
\* double next to the rational n / d on the given side
Less(v, t) ==
    IF t.k = "lin" THEN v * t.d < t.n
    ELSE IF t.k = "near" THEN v * t.d < t.n \/ (v * t.d = t.n /\ t.side > 0)
    ELSE v <= 0 \/ Pow(v, t.d) < Pow(t.lo, t.d - t.n) * Pow(t.hi, t.n)

LessEq(v, t) ==
    IF t.k = "lin" THEN v * t.d <= t.n
    ELSE IF t.k = "near" THEN v * t.d < t.n \/ (v * t.d = t.n /\ t.side > 0)
    ELSE v <= 0 \/ Pow(v, t.d) <= Pow(t.lo, t.d - t.n) * Pow(t.hi, t.n)

\* ------------------------------------------- cumulative-utils.ts: search
FilterModes == {"lt", "lte", "gt", "gte"}

\* lowerBoundStep with the comparison of upperBound (arr[m] <= x)
lowerBoundStep_lessEq(arr, x, l, r) ==
    LET m == (l + r) \div 2
    IN  IF LessEq(arr[m + 1], x) THEN <<m + 1, r>> ELSE <<l, m>>

\* one iteration of lowerBound's while loop: the new <<l, r>>
lowerBoundStep(arr, x, l, r) ==
    LET m == (l + r) \div 2
    IN  IF Less(arr[m + 1], x) THEN <<m + 1, r>> ELSE <<l, m>>

\* upperBoundStep with the comparison of lowerBound (arr[m] < x)
upperBoundStep_less(arr, x, l, r) ==
    LET m == (l + r) \div 2
    IN  IF Less(arr[m + 1], x) THEN <<m + 1, r>> ELSE <<l, m>>

\* one iteration of upperBound's while loop: the new <<l, r>>
upperBoundStep(arr, x, l, r) ==
    LET m == (l + r) \div 2
    IN  IF LessEq(arr[m + 1], x) THEN <<m + 1, r>> ELSE <<l, m>>

RECURSIVE lowerBoundLoop(_, _, _, _)
lowerBoundLoop(arr, x, l, r) ==
    IF l < r
    THEN LET lr == lowerBoundStep(arr, x, l, r) IN lowerBoundLoop(arr, x, lr[1], lr[2])
    ELSE l

lowerBound(arr, x) == lowerBoundLoop(arr, x, 0, Len(arr))

RECURSIVE upperBoundLoop(_, _, _, _)
upperBoundLoop(arr, x, l, r) ==
    IF l < r
    THEN LET lr == upperBoundStep(arr, x, l, r) IN upperBoundLoop(arr, x, lr[1], lr[2])
    ELSE l

upperBound(arr, x) == upperBoundLoop(arr, x, 0, Len(arr))

MathMax(a, b) == IF a >= b THEN a ELSE b

\* getCountAtThreshold whose gte case searches with upperBound
getCountAtThreshold_gteUpper(mode, sortedValues, t) ==
    IF Len(sortedValues) = 0 THEN 0
    ELSE CASE mode = "lt" -> lowerBound(sortedValues, t)
           [] mode = "lte" -> upperBound(sortedValues, t)
           [] mode = "gt" -> MathMax(0, Len(sortedValues) - upperBound(sortedValues, t))
           [] mode = "gte" -> MathMax(0, Len(sortedValues) - upperBound(sortedValues, t))
           [] OTHER -> upperBound(sortedValues, t)

\* getCountAtThreshold whose default branch counts like lt
getCountAtThreshold_defaultLt(mode, sortedValues, t) ==
    IF Len(sortedValues) = 0 THEN 0
    ELSE CASE mode = "lt" -> lowerBound(sortedValues, t)
           [] mode = "lte" -> upperBound(sortedValues, t)
           [] mode = "gt" -> MathMax(0, Len(sortedValues) - upperBound(sortedValues, t))
           [] mode = "gte" -> MathMax(0, Len(sortedValues) - lowerBound(sortedValues, t))
           [] OTHER -> lowerBound(sortedValues, t)

\* getCountAtThreshold whose gt case returns the index instead of the rest
getCountAtThreshold_gtIndex(mode, sortedValues, t) ==
    IF Len(sortedValues) = 0 THEN 0
    ELSE CASE mode = "lt" -> lowerBound(sortedValues, t)
           [] mode = "lte" -> upperBound(sortedValues, t)
           [] mode = "gt" -> upperBound(sortedValues, t)
           [] mode = "gte" -> MathMax(0, Len(sortedValues) - lowerBound(sortedValues, t))
           [] OTHER -> upperBound(sortedValues, t)

getCountAtThreshold(mode, sortedValues, t) ==
    IF Len(sortedValues) = 0 THEN 0
    ELSE CASE mode = "lt" -> lowerBound(sortedValues, t)
           [] mode = "lte" -> upperBound(sortedValues, t)
           [] mode = "gt" ->
                LET i == upperBound(sortedValues, t)
                IN  MathMax(0, Len(sortedValues) - i)
           [] mode = "gte" ->
                LET i == lowerBound(sortedValues, t)
                IN  MathMax(0, Len(sortedValues) - i)
           [] OTHER -> upperBound(sortedValues, t)


\* ----------------------------------------- component: derived data (useMemo)
\* [...values].sort((a, b) => a - b) on a copy: an ascending merge sort.
\* Merging two ascending runs puts a[i] after the elements of b smaller than
\* it and b[j] after the elements of a not larger than it.
Merge(a, b) ==
    LET posA == [i \in 1 .. Len(a) |-> i + Cardinality({j \in 1 .. Len(b) : b[j] < a[i]})]
        posB == [j \in 1 .. Len(b) |-> j + Cardinality({i \in 1 .. Len(a) : a[i] <= b[j]})]
        merged == [k \in 1 .. Len(a) + Len(b) |->
                     IF \E i \in 1 .. Len(a) : posA[i] = k
                     THEN a[CHOOSE i \in 1 .. Len(a) : posA[i] = k]
                     ELSE b[CHOOSE j \in 1 .. Len(b) : posB[j] = k]]
    IN  SubSeq(merged, 1, Len(a) + Len(b))

RECURSIVE SortAsc(_)
SortAsc(vals) ==
    IF Len(vals) <= 1 THEN vals
    ELSE IF Len(vals) = 2
    THEN (IF vals[2] < vals[1] THEN <<vals[2], vals[1]>> ELSE vals)
    ELSE LET h == Len(vals) \div 2
         IN  Merge(SortAsc(SubSeq(vals, 1, h)), SortAsc(SubSeq(vals, h + 1, Len(vals))))

\* the number of points of chartData (the series itself is not needed by the
\* drag logic: only the `!chartData.length` test of the render reads it)
chartDataLength(sorted) ==
    IF Len(sorted) = 0 THEN 0
    ELSE IF sorted[1] = sorted[Len(sorted)] THEN 2
    ELSE IF Len(sorted) <= 50 THEN Len(sorted)
    ELSE (IF Len(sorted) < 100 THEN Len(sorted) ELSE 100) + 1

\* the memo of the distribution: { minValue, maxValue, sortedValues }
distribution(vals) ==
    IF Len(vals) = 0
    THEN [minValue |-> 0, maxValue |-> 0, sortedValues |-> << >>]
    ELSE LET sorted == SortAsc(vals)
         IN  [minValue |-> sorted[1], maxValue |-> sorted[Len(sorted)],
              sortedValues |-> sorted]

\* useState(initialThreshold ?? (minValue + maxValue) / 2)
NoInitial == [k |-> "undefined"]
initialState(initialThreshold, minV, maxV) ==
    IF initialThreshold.k = "undefined" THEN Rat(minV + maxV, 2) ELSE initialThreshold

\* ------------------------------------ component: pointer position to value
\* x / rect.width as JavaScript computes it
JsDivide(x, w) ==
    IF w = 0
    THEN IF x = 0 THEN [k |-> "nan"]
         ELSE IF x > 0 THEN [k |-> "inf", sign |-> 1]
         ELSE [k |-> "inf", sign |-> -1]
    ELSE Rat(x, w)

\* q || 0 : the fallback of a falsy quotient is 0
OrOne_orZero(q) ==
    IF q.k = "nan" THEN Rat(0, 1)
    ELSE q

\* q || 1 : 0 and NaN are falsy
OrOne(q) ==
    IF q.k = "nan" THEN Rat(1, 1)
    ELSE IF q.k = "lin" /\ q.n = 0 THEN Rat(1, 1)
    ELSE q

\* Math.min(1, q)
MathMin1(q) ==
    IF q.k = "inf" THEN (IF q.sign > 0 THEN Rat(1, 1) ELSE q)
    ELSE IF q.n > q.d THEN Rat(1, 1) ELSE q

\* Math.max(0, q)
MathMax0(q) ==
    IF q.k = "inf" THEN Rat(0, 1)
    ELSE IF q.n < 0 THEN Rat(0, 1) ELSE q

\* const x = e.clientX - rect.left;
\* const percentage = Math.max(0, Math.min(1, x / rect.width || 1));
percentage(clientX, left, width) ==
    MathMax0(MathMin1(OrOne(JsDivide(clientX - left, width))))

\* Math.exp(logMin + p * (logMax - logMin)) for p = n / d: the d-th root of
\* lo^(d-n) * hi^n, a rational exactly when that root is an integer
ExpInterpolate(lo, hi, n, d) ==
    LET target == Pow(lo, d - n) * Pow(hi, n)
        roots == {r \in lo .. hi : Pow(r, d) = target}
    IN  IF roots # {} THEN Rat(CHOOSE r \in roots : TRUE, 1)
        ELSE [k |-> "geo", lo |-> lo, hi |-> hi, n |-> n, d |-> d]

\* newThreshold that interpolates logarithmically whenever logScale is set
newThreshold_logIfRequested(minV, maxV, logS, p) ==
    IF logS
    THEN ExpInterpolate(minV, maxV, p.n, p.d)
    ELSE Rat(minV * p.d + p.n * (maxV - minV), p.d)

\* if (logScale && minValue > 0) ... else newThreshold = minValue + percentage * (maxValue - minValue)
newThreshold(minV, maxV, logS, p) ==
    IF logS /\ minV > 0
    THEN ExpInterpolate(minV, maxV, p.n, p.d)
    ELSE Rat(minV * p.d + p.n * (maxV - minV), p.d)


\* ------------------------------------------------------------- state
VARIABLES
    mounted,            \* the component is mounted
    values,             \* prop values
    filterMode,         \* prop filterMode
    logScale,           \* prop logScale
    onThresholdChange,  \* prop onThresholdChange: NoCallback or a callback's name
    isDragging,         \* useState(false), as of the last render
    isDraggingQ,        \* setIsDragging calls not yet rendered: << >> or <<v>>
    isDraggingRef,      \* isDraggingRef.current
    threshold,          \* useState threshold, as of the last render
    thresholdQ,         \* setThreshold calls not yet rendered: << >> or <<t>>
    sortedValues,       \* memo: sorted copy of values
    minValue,           \* memo
    maxValue,           \* memo
    currentCount,       \* memo: the displayed count
    chartRef,           \* chartRef.current is attached (the chart <div> is rendered)
    handleMouseMove,    \* the useCallback closure of the last render
    moveListeners,      \* window's mousemove listeners, in registration order
    upListeners,        \* window's mouseup listeners, in registration order
    effectCleanup,      \* what the cleanup returned by the listener effect removes
    out,                \* the onThresholdChange calls made by the last step
    ev,                 \* the event of the last step
    fnArr, fnX, fnKind, fnL, fnR, fnPc, fnRet,  \* a call of a binary-search utility
    pArgs,              \* a call of another pure computation: its arguments,
    pLoc,               \*   its local variables,
    pPc,                \*   its position
    pRet                \*   and what it returned

compVars == <<mounted, values, filterMode, logScale, onThresholdChange, isDragging,
              isDraggingQ, isDraggingRef, threshold, thresholdQ, sortedValues,
              minValue, maxValue, currentCount, chartRef, handleMouseMove,
              moveListeners, upListeners, effectCleanup, out, ev>>
fnVars == <<fnArr, fnX, fnKind, fnL, fnR, fnPc, fnRet>>
pureVars == <<pArgs, pLoc, pPc, pRet>>
vars == <<compVars, fnVars, pureVars>>

\* no call of the distribution, scale or tick computations is in progress
NoPureCall ==
    /\ pArgs = [fn |-> "none"] /\ pLoc = [fn |-> "none"]
    /\ pPc = "idle" /\ pRet = [fn |-> "none"]

\* ------------------------------------------------------------- inputs
NoCallback == "undefined"
Callbacks == {NoCallback, "onChangeA"}

\* the value collections a parent passes: empty, all equal, unsorted with a
\* duplicate and a positive minimum, a zero minimum, a wider positive range
ValuePool == {<< >>, <<2, 2>>, <<2, 1, 2>>, <<0, 2, 1>>, <<1, 4>>}

InitialThresholds == {NoInitial, Rat(1, 1)}

Event(type, clientX, svg, left, width) ==
    [type |-> type, clientX |-> clientX, svg |-> svg, left |-> left, width |-> width]
PlainEvent(type) == Event(type, 0, FALSE, 0, 0)

\* --------------------------------------------------- component: handlers
\* the closure useCallback returns for handleMouseMove in a render
moveClosure(minV, maxV, logS, sorted, mode, cb) ==
    [minValue |-> minV, maxValue |-> maxV, logScale |-> logS,
     sortedValues |-> sorted, filterMode |-> mode, onThresholdChange |-> cb]

\* runMouseMove that counts at the rendered threshold, not at the new one
runMouseMove_staleCount(h, e, draggingRef, chart) ==
    IF ~draggingRef \/ ~chart THEN [set |-> << >>, calls |-> << >>]
    ELSE IF ~e.svg THEN [set |-> << >>, calls |-> << >>]
    ELSE LET p == percentage(e.clientX, e.left, e.width)
             t == newThreshold(h.minValue, h.maxValue, h.logScale, p)
             count == getCountAtThreshold(h.filterMode, h.sortedValues, threshold)
         IN  [set |-> <<t>>,
              calls |-> IF h.onThresholdChange = NoCallback THEN << >>
                        ELSE <<[cb |-> h.onThresholdChange, threshold |-> t,
                                count |-> count]>>]

\* runMouseMove without the isDraggingRef guard
runMouseMove_noRefGuard(h, e, draggingRef, chart) ==
    IF ~chart THEN [set |-> << >>, calls |-> << >>]
    ELSE IF ~e.svg THEN [set |-> << >>, calls |-> << >>]
    ELSE LET p == percentage(e.clientX, e.left, e.width)
             t == newThreshold(h.minValue, h.maxValue, h.logScale, p)
             count == getCountAtThreshold(h.filterMode, h.sortedValues, t)
         IN  [set |-> <<t>>,
              calls |-> IF h.onThresholdChange = NoCallback THEN << >>
                        ELSE <<[cb |-> h.onThresholdChange, threshold |-> t,
                                count |-> count]>>]

\* one run of handleMouseMove (closure h) on event e: the threshold it sets
\* (<< >> when it returns early) and the onThresholdChange calls it makes
runMouseMove(h, e, draggingRef, chart) ==
    IF ~draggingRef \/ ~chart THEN [set |-> << >>, calls |-> << >>]
    ELSE IF ~e.svg THEN [set |-> << >>, calls |-> << >>]
    ELSE LET p == percentage(e.clientX, e.left, e.width)
             t == newThreshold(h.minValue, h.maxValue, h.logScale, p)
             count == getCountAtThreshold(h.filterMode, h.sortedValues, t)
         IN  [set |-> <<t>>,
              calls |-> IF h.onThresholdChange = NoCallback THEN << >>
                        ELSE <<[cb |-> h.onThresholdChange, threshold |-> t,
                                count |-> count]>>]

\* window dispatches the event to its mousemove listeners in order
RECURSIVE dispatchMove(_, _, _, _, _, _)
dispatchMove(ls, e, draggingRef, chart, q, calls) ==
    IF ls = << >> THEN [q |-> q, calls |-> calls]
    ELSE LET r == runMouseMove(Head(ls), e, draggingRef, chart)
         IN  dispatchMove(Tail(ls), e, draggingRef, chart,
                          IF r.set = << >> THEN q ELSE r.set, calls \o r.calls)

\* addEventListener / removeEventListener on one event type
addListener(ls, f) == IF \E i \in 1 .. Len(ls) : ls[i] = f THEN ls ELSE Append(ls, f)
removeListener(ls, f) == SelectSeq(ls, LAMBDA g : g # f)

RECURSIVE removeAll(_, _)
removeAll(ls, fs) == IF fs = << >> THEN ls ELSE removeAll(removeListener(ls, Head(fs)), Tail(fs))

NoCleanup == [move |-> << >>, up |-> << >>]

\* listenerEffect that never runs the previous cleanup
listenerEffect_addOnly(dragging, h, cleanup, moveLs, upLs) ==
    IF dragging
    THEN [move |-> addListener(moveLs, h), up |-> addListener(upLs, "handleMouseUp"),
          cleanup |-> [move |-> <<h>>, up |-> <<"handleMouseUp">>]]
    ELSE [move |-> moveLs, up |-> upLs, cleanup |-> NoCleanup]

\* listenerEffect whose cleanup forgets the mouseup listener
listenerEffect_keepMouseUp(dragging, h, cleanup, moveLs, upLs) ==
    LET m0 == removeAll(moveLs, cleanup.move)
        u0 == removeAll(upLs, cleanup.up)
    IN  IF dragging
        THEN [move |-> addListener(m0, h), up |-> addListener(u0, "handleMouseUp"),
              cleanup |-> [move |-> <<h>>, up |-> << >>]]
        ELSE [move |-> m0, up |-> u0, cleanup |-> NoCleanup]

\* the listener effect's body when its dependencies changed: the previous
\* cleanup runs, then the listeners are added if isDragging
listenerEffect(dragging, h, cleanup, moveLs, upLs) ==
    LET m0 == removeAll(moveLs, cleanup.move)
        u0 == removeAll(upLs, cleanup.up)
    IN  IF dragging
        THEN [move |-> addListener(m0, h), up |-> addListener(u0, "handleMouseUp"),
              cleanup |-> [move |-> <<h>>, up |-> <<"handleMouseUp">>]]
        ELSE [move |-> m0, up |-> u0, cleanup |-> NoCleanup]

\* countDepsChanged without the filterMode dependency
countDepsChanged_noMode(valsChanged, mode, newMode, t, newT) ==
    valsChanged \/ t # newT

\* the dependencies of the currentCount memo changed
countDepsChanged(valsChanged, mode, newMode, t, newT) ==
    valsChanged \/ mode # newMode \/ t # newT

\* a render with props (v, m, lg, cb), its commit and its effects
Commit(v, m, lg, cb) ==
    LET valsChanged == v # values
        dist == IF valsChanged THEN distribution(v)
                ELSE [minValue |-> minValue, maxValue |-> maxValue,
                      sortedValues |-> sortedValues]
        drag == IF isDraggingQ = << >> THEN isDragging ELSE isDraggingQ[1]
        thr == IF thresholdQ = << >> THEN threshold ELSE thresholdQ[1]
        h == moveClosure(dist.minValue, dist.maxValue, lg, dist.sortedValues, m, cb)
        effectDepsChanged == drag # isDragging \/ h # handleMouseMove \/ valsChanged
        eff == IF effectDepsChanged
               THEN listenerEffect(drag, h, effectCleanup, moveListeners, upListeners)
               ELSE [move |-> moveListeners, up |-> upListeners, cleanup |-> effectCleanup]
    IN  /\ values' = v
        /\ filterMode' = m
        /\ logScale' = lg
        /\ onThresholdChange' = cb
        /\ isDragging' = drag
        /\ isDraggingQ' = << >>
        /\ threshold' = thr
        /\ thresholdQ' = << >>
        /\ sortedValues' = dist.sortedValues
        /\ minValue' = dist.minValue
        /\ maxValue' = dist.maxValue
        /\ currentCount' = IF countDepsChanged(valsChanged, filterMode, m, threshold, thr)
                           THEN getCountAtThreshold(m, dist.sortedValues, thr)
                           ELSE currentCount
        /\ chartRef' = (chartDataLength(dist.sortedValues) # 0)
        /\ handleMouseMove' = h
        /\ moveListeners' = eff.move
        /\ upListeners' = eff.up
        /\ effectCleanup' = eff.cleanup


\* --------------------------------------------------- component: actions
\* no pure-function call is in progress
FnIdle ==
    /\ fnArr = << >> /\ fnX = Rat(0, 1) /\ fnKind = "none"
    /\ fnL = 0 /\ fnR = 0 /\ fnPc = "idle" /\ fnRet = 0

\* the state after the first render and its effects
Init ==
    /\ FnIdle
    /\ NoPureCall
    /\ mounted = TRUE
    /\ values \in ValuePool
    /\ filterMode \in FilterModes
    /\ logScale \in BOOLEAN
    /\ onThresholdChange \in Callbacks
    /\ isDragging = FALSE
    /\ isDraggingQ = << >>
    /\ isDraggingRef = FALSE
    /\ sortedValues = distribution(values).sortedValues
    /\ minValue = distribution(values).minValue
    /\ maxValue = distribution(values).maxValue
    /\ \E i \in InitialThresholds : threshold = initialState(i, minValue, maxValue)
    /\ thresholdQ = << >>
    /\ currentCount = getCountAtThreshold(filterMode, sortedValues, threshold)
    /\ chartRef = (chartDataLength(sortedValues) # 0)
    /\ handleMouseMove = moveClosure(minValue, maxValue, logScale, sortedValues,
                                     filterMode, onThresholdChange)
    /\ moveListeners = << >>
    /\ upListeners = << >>
    /\ effectCleanup = NoCleanup
    /\ out = << >>
    /\ ev = PlainEvent("mount")

\* onMouseDown of the handle's hitbox, which is rendered inside the chart
handleMouseDown ==
    /\ mounted /\ chartRef
    /\ isDraggingRef' = TRUE
    /\ isDraggingQ' = <<TRUE>>
    /\ out' = << >>
    /\ ev' = PlainEvent("mousedown")
    /\ UNCHANGED <<mounted, values, filterMode, logScale, onThresholdChange, isDragging,
                   threshold, thresholdQ, sortedValues, minValue, maxValue, currentCount,
                   chartRef, handleMouseMove, moveListeners, upListeners, effectCleanup>>
    /\ UNCHANGED <<fnVars, pureVars>>

\* what the handler finds under chartRef: no <svg>, or the plotting
\* element's bounding rectangle
Plots == {[svg |-> FALSE, left |-> 0, width |-> 0],
          [svg |-> TRUE, left |-> RectLeft, width |-> 0],
          [svg |-> TRUE, left |-> RectLeft, width |-> PlotWidth]}

\* a mousemove event reaches window
WindowMouseMove(clientX, plot) ==
    LET e == Event("mousemove", clientX, plot.svg, plot.left, plot.width)
        r == dispatchMove(moveListeners, e, isDraggingRef, chartRef, thresholdQ, << >>)
    IN  /\ thresholdQ' = r.q
        /\ out' = r.calls
        /\ ev' = e
        /\ UNCHANGED <<mounted, values, filterMode, logScale, onThresholdChange,
                       isDragging, isDraggingQ, isDraggingRef, threshold, sortedValues,
                       minValue, maxValue, currentCount, chartRef, handleMouseMove,
                       moveListeners, upListeners, effectCleanup>>
        /\ UNCHANGED <<fnVars, pureVars>>

\* a mouseup event reaches window: handleMouseUp runs if it is registered
WindowMouseUp ==
    /\ isDraggingRef' = IF upListeners # << >> THEN FALSE ELSE isDraggingRef
    /\ isDraggingQ' = IF upListeners # << >> THEN <<FALSE>> ELSE isDraggingQ
    /\ out' = << >>
    /\ ev' = PlainEvent("mouseup")
    /\ UNCHANGED <<mounted, values, filterMode, logScale, onThresholdChange, isDragging,
                   threshold, thresholdQ, sortedValues, minValue, maxValue, currentCount,
                   chartRef, handleMouseMove, moveListeners, upListeners, effectCleanup>>
    /\ UNCHANGED <<fnVars, pureVars>>

\* React renders the queued state updates
Render ==
    /\ mounted
    /\ isDraggingQ # << >> \/ thresholdQ # << >>
    /\ Commit(values, filterMode, logScale, onThresholdChange)
    /\ out' = << >>
    /\ ev' = PlainEvent("render")
    /\ UNCHANGED <<mounted, isDraggingRef>>
    /\ UNCHANGED <<fnVars, pureVars>>

\* the parent renders the component with a changed prop
SetValues(v) ==
    /\ mounted /\ v # values
    /\ Commit(v, filterMode, logScale, onThresholdChange)
    /\ out' = << >>
    /\ ev' = PlainEvent("values")
    /\ UNCHANGED <<mounted, isDraggingRef>>
    /\ UNCHANGED <<fnVars, pureVars>>

SetFilterMode(m) ==
    /\ mounted /\ m # filterMode
    /\ Commit(values, m, logScale, onThresholdChange)
    /\ out' = << >>
    /\ ev' = PlainEvent("filterMode")
    /\ UNCHANGED <<mounted, isDraggingRef>>
    /\ UNCHANGED <<fnVars, pureVars>>

SetLogScale(lg) ==
    /\ mounted /\ lg # logScale
    /\ Commit(values, filterMode, lg, onThresholdChange)
    /\ out' = << >>
    /\ ev' = PlainEvent("logScale")
    /\ UNCHANGED <<mounted, isDraggingRef>>
    /\ UNCHANGED <<fnVars, pureVars>>

SetOnThresholdChange(cb) ==
    /\ mounted /\ cb # onThresholdChange
    /\ Commit(values, filterMode, logScale, cb)
    /\ out' = << >>
    /\ ev' = PlainEvent("onThresholdChange")
    /\ UNCHANGED <<mounted, isDraggingRef>>
    /\ UNCHANGED <<fnVars, pureVars>>

\* the component unmounts: the ref is detached and the effect's cleanup runs
Unmount ==
    /\ mounted
    /\ mounted' = FALSE
    /\ chartRef' = FALSE
    /\ moveListeners' = removeAll(moveListeners, effectCleanup.move)
    /\ upListeners' = removeAll(upListeners, effectCleanup.up)
    /\ effectCleanup' = NoCleanup
    /\ out' = << >>
    /\ ev' = PlainEvent("unmount")
    /\ UNCHANGED <<values, filterMode, logScale, onThresholdChange, isDragging,
                   isDraggingQ, isDraggingRef, threshold, thresholdQ, sortedValues,
                   minValue, maxValue, currentCount, handleMouseMove>>
    /\ UNCHANGED <<fnVars, pureVars>>

Next ==
    \/ handleMouseDown
    \/ \E clientX \in 0 .. MaxX, plot \in Plots : WindowMouseMove(clientX, plot)
    \/ WindowMouseUp
    \/ Render
    \/ \E v \in ValuePool : SetValues(v)
    \/ \E m \in FilterModes : SetFilterMode(m)
    \/ \E lg \in BOOLEAN : SetLogScale(lg)
    \/ \E cb \in Callbacks : SetOnThresholdChange(cb)
    \/ Unmount

Spec == Init /\ [][Next]_vars


\* ------------------------------------------ calls of the pure functions
\* the ascending sequences over 0 .. MaxVal of length at most MaxLen
SortedSeqs ==
    {s \in UNION {[1 .. n -> 0 .. MaxVal] : n \in 0 .. MaxLen} :
        \A i \in 1 .. Len(s) - 1 : s[i] <= s[i + 1]}

\* thresholds from below the least to above the greatest element, in halves
FnThresholds == {Rat(n, 2) : n \in -2 .. 2 * MaxVal + 2}

\* no component is mounted while the pure functions are exercised
NoComponent ==
    /\ mounted = FALSE /\ values = << >> /\ filterMode = "lte" /\ logScale = FALSE
    /\ onThresholdChange = NoCallback /\ isDragging = FALSE /\ isDraggingQ = << >>
    /\ isDraggingRef = FALSE /\ threshold = Rat(0, 1) /\ thresholdQ = << >>
    /\ sortedValues = << >> /\ minValue = 0 /\ maxValue = 0 /\ currentCount = 0
    /\ chartRef = FALSE
    /\ handleMouseMove = moveClosure(0, 0, FALSE, << >>, "lte", NoCallback)
    /\ moveListeners = << >> /\ upListeners = << >> /\ effectCleanup = NoCleanup
    /\ out = << >> /\ ev = PlainEvent("none")

InitFn ==
    /\ NoComponent
    /\ NoPureCall
    /\ fnArr \in SortedSeqs
    /\ fnX \in FnThresholds
    /\ fnKind = "none" /\ fnL = 0 /\ fnR = 0 /\ fnPc = "idle" /\ fnRet = 0

\* lowerBound(arr, x) / upperBound(arr, x) is entered: let l = 0, r = arr.length
CallBound(kind) ==
    /\ fnPc = "idle"
    /\ fnKind' = kind
    /\ fnL' = 0
    /\ fnR' = Len(fnArr)
    /\ fnPc' = "loop"
    /\ UNCHANGED <<fnArr, fnX, fnRet>>
    /\ UNCHANGED <<compVars, pureVars>>

\* LoopIteration whose taken branch assigns l = m instead of l = m + 1
LoopIteration_noAdvance ==
    /\ fnPc = "loop"
    /\ fnL < fnR
    /\ LET lr == IF fnKind = "lowerBound"
                 THEN lowerBoundStep(fnArr, fnX, fnL, fnR)
                 ELSE upperBoundStep(fnArr, fnX, fnL, fnR)
       IN  fnL' = (IF lr[1] > fnL THEN lr[1] - 1 ELSE lr[1]) /\ fnR' = lr[2]
    /\ UNCHANGED <<fnArr, fnX, fnKind, fnPc, fnRet>>
    /\ UNCHANGED <<compVars, pureVars>>

\* while (l < r) { ... }: one iteration
LoopIteration ==
    /\ fnPc = "loop"
    /\ fnL < fnR
    /\ LET lr == IF fnKind = "lowerBound"
                 THEN lowerBoundStep(fnArr, fnX, fnL, fnR)
                 ELSE upperBoundStep(fnArr, fnX, fnL, fnR)
       IN  fnL' = lr[1] /\ fnR' = lr[2]
    /\ UNCHANGED <<fnArr, fnX, fnKind, fnPc, fnRet>>
    /\ UNCHANGED <<compVars, pureVars>>

\* the loop condition fails: return l
LoopExit ==
    /\ fnPc = "loop"
    /\ ~(fnL < fnR)
    /\ fnRet' = fnL
    /\ fnPc' = "done"
    /\ UNCHANGED <<fnArr, fnX, fnKind, fnL, fnR>>
    /\ UNCHANGED <<compVars, pureVars>>

\* the mode strings a caller passes: the four of FilterMode and, from
\* untyped callers, strings outside it
CallModes == FilterModes \cup {"eq", "between"}

\* getCountAtThreshold(mode, arr, x) is called and returns
CallGetCount(mode) ==
    /\ fnPc = "idle"
    /\ fnKind' = mode
    /\ fnRet' = getCountAtThreshold(mode, fnArr, fnX)
    /\ fnPc' = "done"
    /\ UNCHANGED <<fnArr, fnX, fnL, fnR>>
    /\ UNCHANGED <<compVars, pureVars>>

NextFn ==
    \/ \E kind \in {"lowerBound", "upperBound"} : CallBound(kind)
    \/ LoopIteration
    \/ LoopExit
    \/ \E mode \in CallModes : CallGetCount(mode)

SpecFn == InitFn /\ [][NextFn]_vars

\* a call that has started runs to its end
SpecFnFair == SpecFn /\ WF_vars(LoopIteration) /\ WF_vars(LoopExit)


\* ------------------------------------- calls of the distribution builder
ExactLimit == 50   \* sorted.length <= 50: one point per element
MaxBins == 100     \* Math.min(100, sorted.length)
LargeExtra == 1    \* the longest generated collection has MaxBins + LargeExtra elements

\* every collection over 0 .. MaxVal of length at most MaxLen, in any order
SmallInputs == UNION {[1 .. n -> 0 .. MaxVal] : n \in 0 .. MaxLen}

\* long collections, around the two limits: n values a * (i - 1) mod m
GenValues(n, a, m) == [i \in 1 .. n |-> (a * (i - 1)) % m]
LargeLens == {ExactLimit, ExactLimit + 1, MaxBins, MaxBins + LargeExtra}
LargeInputs ==
    {GenValues(n, am[1], am[2]) : n \in LargeLens, am \in {<<1, 2>>, <<7, 11>>, <<37, 257>>}}
    \cup {[i \in 1 .. n |-> 5] : n \in LargeLens}

DistInputs == SmallInputs \cup LargeInputs

\* an in-place values.sort(...): the caller's array is sorted too
sortedCopy_inPlace(vals) == [values |-> SortAsc(vals), sorted |-> SortAsc(vals)]

\* const sorted = [...values].sort((a, b) => a - b): the caller's array after
\* the statement, and the new array
sortedCopy(vals) == [values |-> vals, sorted |-> SortAsc(vals)]

\* the degenerate series with its two points swapped
degeneratePoints_swapped(min, n) ==
    <<[value |-> Rat(min, 1), count |-> n], [value |-> Rat(min, 1), count |-> 0]>>

\* min === max: chartData: [{ value: min, count: 0 }, { value: min, count: sorted.length }]
degeneratePoints(min, n) ==
    <<[value |-> Rat(min, 1), count |-> 0], [value |-> Rat(min, 1), count |-> n]>>

\* the forEach callback pushing count: index
exactPoint_countIndex(value, index) == [value |-> Rat(value, 1), count |-> index]

\* sorted.forEach((value, index) => data.push({ value, count: index + 1 }))
exactPoint(value, index) == [value |-> Rat(value, 1), count |-> index + 1]

\* const binValue = min + i * binSize, binSize = (max - min) / binCount
binValue(min, max, binCount, i) == Rat(min * binCount + i * (max - min), binCount)

\* the inner while loop with a strict comparison (sorted[currentIndex] < binValue)
RECURSIVE advanceIndex_strict(_, _, _)
advanceIndex_strict(sorted, currentIndex, bv) ==
    IF currentIndex < Len(sorted) /\ Less(sorted[currentIndex + 1], bv)
    THEN advanceIndex_strict(sorted, currentIndex + 1, bv)
    ELSE currentIndex

\* while (currentIndex < sorted.length && sorted[currentIndex] <= binValue) currentIndex++
RECURSIVE advanceIndex(_, _, _)
advanceIndex(sorted, currentIndex, bv) ==
    IF currentIndex < Len(sorted) /\ LessEq(sorted[currentIndex + 1], bv)
    THEN advanceIndex(sorted, currentIndex + 1, bv)
    ELSE currentIndex

DistCall(v) == [fn |-> "distribution", values |-> v, given |-> v]
DistResult(data, min, max, sorted) ==
    [fn |-> "distribution", chartData |-> data, minValue |-> min, maxValue |-> max,
     sortedValues |-> sorted]

InitDist ==
    /\ NoComponent
    /\ FnIdle
    /\ pArgs \in {DistCall(v) : v \in DistInputs}
    /\ pLoc = [fn |-> "none"]
    /\ pPc = "call"
    /\ pRet = [fn |-> "none"]

\* the useMemo callback up to the choice between exact points and bins
DistEnter ==
    /\ pPc = "call" /\ pArgs.fn = "distribution"
    /\ IF Len(pArgs.values) = 0
       THEN /\ pRet' = DistResult(<< >>, 0, 0, << >>)
            /\ pPc' = "done"
            /\ UNCHANGED <<pArgs, pLoc>>
       ELSE LET sc == sortedCopy(pArgs.values)
                sorted == sc.sorted
                min == sorted[1]
                max == sorted[Len(sorted)]
            IN  /\ pArgs' = [pArgs EXCEPT !.values = sc.values]
                /\ IF min = max
                   THEN /\ pRet' = DistResult(degeneratePoints(min, Len(sorted)),
                                              min, min, sorted)
                        /\ pPc' = "done"
                        /\ UNCHANGED pLoc
                   ELSE /\ pLoc' = [fn |-> "distribution", sorted |-> sorted,
                                    min |-> min, max |-> max, data |-> << >>, i |-> 0,
                                    currentIndex |-> 0,
                                    binCount |-> IF Len(sorted) < MaxBins
                                                 THEN Len(sorted) ELSE MaxBins]
                        /\ pPc' = IF Len(sorted) <= ExactLimit THEN "forEach" ELSE "bins"
                        /\ UNCHANGED pRet
    /\ UNCHANGED <<compVars, fnVars>>

\* one call of the forEach callback
DistForEach ==
    /\ pPc = "forEach"
    /\ pLoc.i < Len(pLoc.sorted)
    /\ pLoc' = [pLoc EXCEPT !.data = Append(@, exactPoint(pLoc.sorted[pLoc.i + 1], pLoc.i)),
                            !.i = @ + 1]
    /\ UNCHANGED <<pArgs, pPc, pRet>>
    /\ UNCHANGED <<compVars, fnVars>>

\* one iteration of for (let i = 0; i <= binCount; i++)
DistBin ==
    /\ pPc = "bins"
    /\ pLoc.i <= pLoc.binCount
    /\ LET bv == binValue(pLoc.min, pLoc.max, pLoc.binCount, pLoc.i)
           idx == advanceIndex(pLoc.sorted, pLoc.currentIndex, bv)
       IN  pLoc' = [pLoc EXCEPT !.currentIndex = idx,
                                !.data = Append(@, [value |-> bv, count |-> idx]),
                                !.i = @ + 1]
    /\ UNCHANGED <<pArgs, pPc, pRet>>
    /\ UNCHANGED <<compVars, fnVars>>

\* return { chartData: data, minValue: min, maxValue: max, sortedValues: sorted }
DistReturn ==
    /\ \/ pPc = "forEach" /\ ~(pLoc.i < Len(pLoc.sorted))
       \/ pPc = "bins" /\ ~(pLoc.i <= pLoc.binCount)
    /\ pRet' = DistResult(pLoc.data, pLoc.min, pLoc.max, pLoc.sorted)
    /\ pPc' = "done"
    /\ UNCHANGED <<pArgs, pLoc>>
    /\ UNCHANGED <<compVars, fnVars>>

NextDist == DistEnter \/ DistForEach \/ DistBin \/ DistReturn

SpecDist == InitDist /\ [][NextDist]_vars

\* ------------------------------- cumulative-utils.ts: scale and tick maths
RootBound == 2     \* largest denominator tried for a rational logarithm ratio
AutoMinTicks == 6  \* Math.max(6, ...)
PxPerTick == 40    \* (containerWidth || 0) / 40

NonNeg(e) == IF e > 0 THEN e ELSE 0

\* (ln t - ln min) / (ln max - ln min) = a / b for a rational t = n / d
\* exactly when t^b * min^(a-b) = max^a
RatioIs(min, max, t, a, b) ==
    Pow(t.n, b) * Pow(min, NonNeg(a - b)) * Pow(max, NonNeg(-a))
        = Pow(t.d, b) * Pow(min, NonNeg(b - a)) * Pow(max, NonNeg(a))

\* ((logT - logMin) / (logMax - logMin)) * 100 for min, max, t > 0, min # max:
\* a rational when the ratio of logarithms is one (found up to RootBound),
\* otherwise the real number itself, kept by its arguments
logPercentage(min, max, t) ==
    IF t.k = "geo"
    THEN IF t.lo = min /\ t.hi = max THEN Rat(100 * t.n, t.d)
         ELSE [k |-> "pct", scale |-> "log", min |-> min, max |-> max, t |-> t]
    ELSE LET found == {ab \in (-2 * RootBound .. 3 * RootBound) \X (1 .. RootBound) :
                          RatioIs(min, max, t, ab[1], ab[2])}
         IN  IF found # {}
             THEN LET ab == CHOOSE x \in found : TRUE IN Rat(100 * ab[1], ab[2])
             ELSE [k |-> "pct", scale |-> "log", min |-> min, max |-> max, t |-> t]

\* ((t - min) / (max - min)) * 100 for min # max
linearPercentage(min, max, t) ==
    IF t.k = "geo"
    THEN [k |-> "pct", scale |-> "lin", min |-> min, max |-> max, t |-> t]
    ELSE IF max > min
         THEN Rat(100 * (t.n - min * t.d), t.d * (max - min))
         ELSE Rat(100 * (min * t.d - t.n), t.d * (min - max))

\* t > 0
Positive(t) == t.k = "geo" \/ t.n > 0

\* thresholdToPercentage without the max === min guard: a division by zero
thresholdToPercentage_noGuard(min, max, t, logS) ==
    IF max = min THEN [k |-> "nan"]
    ELSE IF logS /\ min > 0 /\ max > 0 /\ Positive(t)
    THEN logPercentage(min, max, t)
    ELSE linearPercentage(min, max, t)

\* thresholdToPercentage that always takes the linear branch
thresholdToPercentage_linearOnly(min, max, t, logS) ==
    IF max = min THEN Rat(0, 1) ELSE linearPercentage(min, max, t)

thresholdToPercentage(min, max, t, logS) ==
    IF max = min THEN Rat(0, 1)
    ELSE IF logS /\ min > 0 /\ max > 0 /\ Positive(t)
    THEN logPercentage(min, max, t)
    ELSE linearPercentage(min, max, t)

\* Math.round(w / 40) for an integer w >= 0
RoundedTicks(w) == (2 * w + PxPerTick) \div (2 * PxPerTick)

\* autoTickCount ignoring the lower limit of 6
autoTickCount_noFloor(containerWidth) == RoundedTicks(containerWidth)

\* Math.max(6, Math.round((containerWidth || 0) / 40))
autoTickCount(containerWidth) ==
    IF RoundedTicks(containerWidth) > AutoMinTicks
    THEN RoundedTicks(containerWidth) ELSE AutoMinTicks

\* xAxisTicks is << >> (undefined) or <<k>>
NoTicks == << >>

\* const count = xAxisTicks ?? autoTickCount
resolvedCount(containerWidth, xAxisTicks) ==
    IF xAxisTicks = NoTicks THEN autoTickCount(containerWidth) ELSE xAxisTicks[1]

\* a linear tick placed at i / count of the range
linearTick_overCount(min, max, i, count) == Rat(min * count + i * (max - min), count)

\* minValue + (i / (count - 1)) * (maxValue - minValue)
linearTick(min, max, i, count) ==
    Rat(min * (count - 1) + i * (max - min), count - 1)

\* Math.exp(logMin + (i / (count - 1)) * (logMax - logMin)) for min > 0;
\* Math.log(max) is NaN for max < 0 and -Infinity for max = 0
logTick(min, max, i, count) ==
    IF max < 0 THEN [k |-> "nan"]
    ELSE IF max = 0 THEN (IF i = 0 THEN [k |-> "nan"] ELSE Rat(0, 1))
    ELSE IF min <= max THEN ExpInterpolate(min, max, i, count - 1)
    ELSE ExpInterpolate(max, min, count - 1 - i, count - 1)

NoTickList == [undefined |-> TRUE, ticks |-> << >>]

\* computeTicks without the maxValue === minValue guard
computeTicks_noGuard(minV, maxV, logS, containerWidth, xAxisTicks) ==
    LET count == resolvedCount(containerWidth, xAxisTicks)
    IN  IF count = 0 \/ count < 2 THEN NoTickList
        ELSE [undefined |-> FALSE,
              ticks |-> [i \in 1 .. count |-> linearTick(minV, maxV, i - 1, count)]]

computeTicks(minV, maxV, logS, containerWidth, xAxisTicks) ==
    LET count == resolvedCount(containerWidth, xAxisTicks)
    IN  IF maxV = minV THEN NoTickList
        ELSE IF count = 0 \/ count < 2 THEN NoTickList
        ELSE [undefined |-> FALSE,
              ticks |-> [i \in 1 .. count |->
                            IF logS /\ minV > 0
                            THEN logTick(minV, maxV, i - 1, count)
                            ELSE linearTick(minV, maxV, i - 1, count)]]

\* ------------------- the memos computed from the distribution (component)
WidthSteps == 16   \* container widths are multiples of 20 px up to 20 * WidthSteps
MaxTicks == 5      \* largest requested tick count

Widths == {20 * k : k \in 0 .. WidthSteps}
TickRequests == {NoTicks} \cup {<<k>> : k \in -1 .. MaxTicks}

\* the distribution memo has its value
DistAvailable == pArgs.fn = "distribution" /\ pPc \in {"done", "used"}

\* getCountAtThreshold(filterMode, sortedValues, t) of the getCount callback
MemoCount(mode, t) ==
    /\ pPc = "done" /\ pArgs.fn = "distribution"
    /\ pLoc' = [fn |-> "getCountAtThreshold", mode |-> mode, t |-> t,
                ret |-> getCountAtThreshold(mode, pRet.sortedValues, t)]
    /\ pPc' = "used"
    /\ UNCHANGED <<pArgs, pRet>>
    /\ UNCHANGED <<compVars, fnVars>>

\* computeTicks(minValue, maxValue, logScale, containerWidth, xAxisTicks)
MemoTicks(logS, containerWidth, xAxisTicks) ==
    /\ pPc = "done" /\ pArgs.fn = "distribution"
    /\ pLoc' = [fn |-> "computeTicks", logScale |-> logS,
                containerWidth |-> containerWidth, xAxisTicks |-> xAxisTicks,
                ret |-> computeTicks(pRet.minValue, pRet.maxValue, logS,
                                     containerWidth, xAxisTicks)]
    /\ pPc' = "used"
    /\ UNCHANGED <<pArgs, pRet>>
    /\ UNCHANGED <<compVars, fnVars>>

\* thresholdToPercentage(minValue, maxValue, threshold, logScale)
MemoPercentage(t, logS) ==
    /\ pPc = "done" /\ pArgs.fn = "distribution"
    /\ pLoc' = [fn |-> "thresholdToPercentage", t |-> t, logScale |-> logS,
                ret |-> thresholdToPercentage(pRet.minValue, pRet.maxValue, t, logS)]
    /\ pPc' = "used"
    /\ UNCHANGED <<pArgs, pRet>>
    /\ UNCHANGED <<compVars, fnVars>>

NextDerived ==
    \/ NextDist
    \/ \E mode \in FilterModes, t \in FnThresholds : MemoCount(mode, t)
    \/ \E logS \in BOOLEAN, w \in {0, 20 * WidthSteps}, x \in TickRequests :
          MemoTicks(logS, w, x)
    \/ \E t \in FnThresholds, logS \in BOOLEAN : MemoPercentage(t, logS)

SpecDerived == InitDist /\ [][NextDerived]_vars

\* ----------------------------- calls of the scale and tick functions alone
MaxScale == 4      \* min and max range over -1 .. MaxScale
MaxDen == 4        \* drag fractions n / d with d <= MaxDen

ScaleVals == -1 .. MaxScale
ScaleThresholds == {Rat(n, 2) : n \in -4 .. 2 * MaxScale + 2}
\* the fractions of [0, 1] a pointer position can give
UnitFractions == {Rat(nd[1], nd[2]) : nd \in {x \in (0 .. MaxDen) \X (1 .. MaxDen) : x[1] <= x[2]}}

\* the values of [min, max] the round trip starts from: on the logarithmic
\* branch the points of the logarithmic grid, otherwise the half-integers
RangeValues(min, max, logS) ==
    IF logS /\ min > 0
    THEN {ExpInterpolate(min, max, f.n, f.d) : f \in UnitFractions}
    ELSE {t \in ScaleThresholds : min * t.d <= t.n /\ t.n <= max * t.d}

PercentageCalls ==
    {[fn |-> "thresholdToPercentage", min |-> a, max |-> b, t |-> t, logScale |-> lg] :
        a \in ScaleVals, b \in ScaleVals, t \in ScaleThresholds, lg \in BOOLEAN}

TickCalls ==
    {[fn |-> "computeTicks", minValue |-> a, maxValue |-> b, logScale |-> lg,
      containerWidth |-> w, xAxisTicks |-> x] :
        a \in ScaleVals, b \in ScaleVals, lg \in BOOLEAN, w \in Widths, x \in TickRequests}

\* a drag fraction mapped to a value and that value mapped back
FractionFirstCalls ==
    {[fn |-> "fractionThenPercentage", min |-> ab[1], max |-> ab[2], p |-> f,
      logScale |-> lg] :
        ab \in {x \in ScaleVals \X ScaleVals : x[1] < x[2]}, f \in UnitFractions,
        lg \in BOOLEAN}

\* a value mapped to its percentage and the percentage mapped back
PercentageFirstCalls ==
    UNION {{[fn |-> "percentageThenFraction", min |-> ab[1], max |-> ab[2], t |-> t,
             logScale |-> lg] : t \in RangeValues(ab[1], ab[2], lg)} :
           ab \in {x \in ScaleVals \X ScaleVals : x[1] < x[2]}, lg \in BOOLEAN}

InitScale ==
    /\ NoComponent
    /\ FnIdle
    /\ pArgs \in PercentageCalls \cup TickCalls \cup FractionFirstCalls
                 \cup PercentageFirstCalls
    /\ pLoc = [fn |-> "none"]
    /\ pPc = "call"
    /\ pRet = [fn |-> "none"]

\* thresholdToPercentage(min, max, t, logScale), on the argument of the call
\* or on the value the drag mapping produced
ApplyPercentage ==
    /\ \/ pPc = "call" /\ pArgs.fn \in {"thresholdToPercentage", "percentageThenFraction"}
       \/ pPc = "mapped" /\ pArgs.fn = "fractionThenPercentage"
    /\ LET t == IF pPc = "call" THEN pArgs.t ELSE pLoc.value
           r == thresholdToPercentage(pArgs.min, pArgs.max, t, pArgs.logScale)
       IN  IF pArgs.fn = "percentageThenFraction"
           THEN /\ pLoc' = [fn |-> pArgs.fn, value |-> r]
                /\ pPc' = "mapped"
                /\ UNCHANGED pRet
           ELSE /\ pRet' = [fn |-> pArgs.fn, value |-> r]
                /\ pPc' = "done"
                /\ UNCHANGED pLoc
    /\ UNCHANGED pArgs
    /\ UNCHANGED <<compVars, fnVars>>

\* the position-to-value mapping of handleMouseMove, on the fraction of the
\* call or on the percentage / 100 that thresholdToPercentage produced
ApplyFraction ==
    /\ \/ pPc = "call" /\ pArgs.fn = "fractionThenPercentage"
       \/ pPc = "mapped" /\ pArgs.fn = "percentageThenFraction"
    /\ LET p == IF pPc = "call" THEN pArgs.p
                ELSE Rat(pLoc.value.n, 100 * pLoc.value.d)
           v == newThreshold(pArgs.min, pArgs.max, pArgs.logScale, p)
       IN  IF pArgs.fn = "fractionThenPercentage"
           THEN /\ pLoc' = [fn |-> pArgs.fn, value |-> v]
                /\ pPc' = "mapped"
                /\ UNCHANGED pRet
           ELSE /\ pRet' = [fn |-> pArgs.fn, value |-> v]
                /\ pPc' = "done"
                /\ UNCHANGED pLoc
    /\ UNCHANGED pArgs
    /\ UNCHANGED <<compVars, fnVars>>

CallComputeTicks ==
    /\ pPc = "call" /\ pArgs.fn = "computeTicks"
    /\ pRet' = [fn |-> "computeTicks",
                value |-> computeTicks(pArgs.minValue, pArgs.maxValue, pArgs.logScale,
                                       pArgs.containerWidth, pArgs.xAxisTicks)]
    /\ pPc' = "done"
    /\ UNCHANGED <<pArgs, pLoc>>
    /\ UNCHANGED <<compVars, fnVars>>

NextScale == ApplyPercentage \/ ApplyFraction \/ CallComputeTicks

SpecScale == InitScale /\ [][NextScale]_vars

\* ------------------- handleMouseMove's arithmetic in double precision
\* where the double returned by Math.exp lies relative to the real result
ExpRoundings == {-1, 0, 1}

\* the double Math.exp returns for the real v: Math.exp(0) is exactly 1, any
\* other rational result may come out one step below or above, an irrational
\* one keeps its order to every integer
roundedExp(v, side) ==
    IF side = 0 \/ v.k # "lin" \/ v = Rat(1, 1) THEN v
    ELSE [k |-> "near", n |-> v.n, d |-> v.d, side |-> side]

\* newThreshold as the doubles give it: the linear branch is exact on small
\* integers, the logarithmic one goes through Math.exp
doubleThreshold(minV, maxV, logS, p, side) ==
    IF logS /\ minV > 0
    THEN roundedExp(newThreshold(minV, maxV, logS, p), side)
    ELSE newThreshold(minV, maxV, logS, p)

MoveValues == (ValuePool \ {<< >>}) \cup {<<1, 3>>}

MoveCalls ==
    {[fn |-> "handleMouseMove", values |-> v, filterMode |-> m, logScale |-> lg,
      clientX |-> x, left |-> pl.left, width |-> pl.width] :
        v \in MoveValues, m \in FilterModes, lg \in BOOLEAN, x \in 0 .. MaxX,
        pl \in {q \in Plots : q.svg}}

InitMove ==
    /\ NoComponent
    /\ FnIdle
    /\ pArgs \in MoveCalls
    /\ pLoc = [fn |-> "none"]
    /\ pPc = "call"
    /\ pRet = [fn |-> "none"]

\* handleMouseMove past its guards: percentage, newThreshold, count, and the
\* arguments handed to setThreshold / onThresholdChange
MoveCompute(side) ==
    /\ pPc = "call" /\ pArgs.fn = "handleMouseMove"
    /\ LET dist == distribution(pArgs.values)
           p == percentage(pArgs.clientX, pArgs.left, pArgs.width)
           t == doubleThreshold(dist.minValue, dist.maxValue, pArgs.logScale, p, side)
       IN  /\ pLoc' = [fn |-> "handleMouseMove", minValue |-> dist.minValue,
                       maxValue |-> dist.maxValue, percentage |-> p]
           /\ pRet' = [fn |-> "handleMouseMove", threshold |-> t,
                       count |-> getCountAtThreshold(pArgs.filterMode,
                                                     dist.sortedValues, t)]
    /\ pPc' = "done"
    /\ UNCHANGED pArgs
    /\ UNCHANGED <<compVars, fnVars>>

NextMove == \E side \in ExpRoundings : MoveCompute(side)

SpecMove == InitMove /\ [][NextMove]_vars

\* ======================================================================
\* Properties of the pure functions (checked under SpecFn / SpecFnFair)
\* ======================================================================
\* x satisfies the comparison `mode` against t, stated directly
Satisfies(mode, x, t) ==
    CASE mode = "lt" -> x * t.d < t.n
      [] mode = "lte" -> x * t.d <= t.n
      [] mode = "gt" -> x * t.d > t.n
      [] mode = "gte" -> x * t.d >= t.n

CountWhere(mode, s, t) == Cardinality({i \in 1 .. Len(s) : Satisfies(mode, s[i], t)})

Multiplicity(s, t) == Cardinality({i \in 1 .. Len(s) : s[i] * t.d = t.n})

NumLessEq(a, b) == a.n * b.d <= b.n * a.d

Complement(mode) ==
    CASE mode = "lt" -> "gte" [] mode = "gte" -> "lt"
      [] mode = "lte" -> "gt" [] mode = "gt" -> "lte"

\* the smallest 0-based index whose element satisfies `mode` against t, or |s|
SmallestIndex(mode, s, t) ==
    LET hits == {i \in 0 .. Len(s) - 1 : Satisfies(mode, s[i + 1], t)}
    IN  IF hits = {} THEN Len(s)
        ELSE CHOOSE i \in hits : \A j \in hits : i <= j

CountReturned == fnPc = "done" /\ fnKind \in FilterModes
BoundReturned == fnPc = "done" /\ fnKind \in {"lowerBound", "upperBound"}

\* C1: for every sorted s, threshold t and mode in {lt, lte, gt, gte}, the
\* value getCountAtThreshold(mode, s, t) returns is the number of elements x
\* of s with x < t, x <= t, x > t, x >= t respectively.
C1_CountIsNumberSatisfying ==
    CountReturned => fnRet = CountWhere(fnKind, fnArr, fnX)

\* C1 witness: lte at a threshold that sits on a block of duplicates
C1_Witness ==
    /\ CountReturned /\ fnKind = "lte"
    /\ fnArr = <<1, 2, 2, 3>> /\ fnX = Rat(2, 1) /\ fnRet = 3

\* C7: for every sorted s and t, lt + gte = |s| and lte + gt = |s|: the count a
\* call returns and the count of the complementary mode add up to |s|.
C7_ComplementaryCountsPartition ==
    CountReturned =>
        fnRet + getCountAtThreshold(Complement(fnKind), fnArr, fnX) = Len(fnArr)

\* C7 witness: a call that splits a sequence with duplicates at the threshold
C7_Witness ==
    /\ CountReturned /\ fnKind = "gte"
    /\ Multiplicity(fnArr, fnX) >= 2
    /\ fnRet > 0 /\ fnRet < Len(fnArr)

\* C8: for every sorted s and t, lowerBound(s, t) <= upperBound(s, t) and their
\* difference is the number of occurrences of t in s.
C8_BoundsBracketDuplicates ==
    BoundReturned =>
        LET lo == IF fnKind = "lowerBound" THEN fnRet ELSE lowerBound(fnArr, fnX)
            hi == IF fnKind = "upperBound" THEN fnRet ELSE upperBound(fnArr, fnX)
        IN  lo <= hi /\ hi - lo = Multiplicity(fnArr, fnX)

\* C8 witness: upperBound returned past a block of two or more duplicates of t
C8_Witness ==
    /\ BoundReturned /\ fnKind = "upperBound"
    /\ Multiplicity(fnArr, fnX) >= 2
    /\ fnRet < Len(fnArr)

\* C9: for every sorted s (the empty one included) and t, a started search
\* terminates, lowerBound returns the smallest index i with s[i] >= t and
\* upperBound the smallest index i with s[i] > t, and |s| when there is none.
C9_SearchTerminatesAtSmallestIndex ==
    /\ [](BoundReturned =>
            fnRet = SmallestIndex(IF fnKind = "lowerBound" THEN "gte" ELSE "gt",
                                  fnArr, fnX))
    /\ ((fnPc = "loop") ~> (fnPc = "done"))

\* C9 witness: lowerBound returned an interior index after a full-length search
C9_Witness ==
    /\ BoundReturned /\ fnKind = "lowerBound"
    /\ Len(fnArr) = MaxLen
    /\ fnRet > 0 /\ fnRet < Len(fnArr)
    /\ Multiplicity(fnArr, fnX) >= 1

\* C10: for every sorted s and t1 <= t2, the count is non-decreasing in t for
\* the modes lt and lte and non-increasing in t for the modes gt and gte.
C10_CountMonotoneInThreshold ==
    CountReturned =>
        \A t2 \in FnThresholds :
            NumLessEq(fnX, t2) =>
                IF fnKind \in {"lt", "lte"}
                THEN fnRet <= getCountAtThreshold(fnKind, fnArr, t2)
                ELSE fnRet >= getCountAtThreshold(fnKind, fnArr, t2)

\* C10 witness: a gt count that strictly drops at some larger threshold
C10_Witness ==
    /\ CountReturned /\ fnKind = "gt"
    /\ \E t2 \in FnThresholds :
          /\ NumLessEq(fnX, t2)
          /\ getCountAtThreshold("gt", fnArr, t2) < fnRet
          /\ getCountAtThreshold("gt", fnArr, t2) > 0


\* ======================================================================
\* Properties of the component (checked under Spec)
\* ======================================================================
\* the threshold the component holds: the queued update if there is one
Threshold == IF thresholdQ # << >> THEN thresholdQ[1] ELSE threshold

\* the drag controller is in its Dragging state
Dragging == mounted /\ isDragging /\ isDraggingRef

\* clamp((x - L) / W, 0, 1) for W > 0
ClampedFraction(x, L, W) ==
    IF x - L <= 0 THEN Rat(0, 1)
    ELSE IF x - L >= W THEN Rat(1, 1)
    ELSE Rat(x - L, W)

\* min + f * (max - min)
LinearValue(minV, maxV, f) == Rat(minV * f.d + f.n * (maxV - minV), f.d)

\* C2: in every reachable state the displayed count equals
\* getCountAtThreshold(current filterMode, sorted copy of the current values,
\* current threshold).
C2_DisplayedCountIsDerived ==
    mounted => currentCount = getCountAtThreshold(filterMode, SortAsc(values), threshold)

\* C2 witness: after a drag to the right end and a change of filterMode
C2_Witness ==
    /\ mounted /\ ev.type = "filterMode" /\ filterMode = "lt"
    /\ values = <<1, 4>> /\ threshold = Rat(4, 1) /\ currentCount = 1

\* C3 as stated: every pointer-move delivered while Dragging invokes the
\* provided onThresholdChange exactly once, in the move step, with the new
\* threshold and its count.
C3_EveryMoveWhileDraggingReports ==
    [][(ev'.type = "mousemove" /\ Dragging /\ onThresholdChange # NoCallback)
        => /\ thresholdQ' # << >>
           /\ out' = <<[cb |-> onThresholdChange, threshold |-> Threshold',
                        count |-> getCountAtThreshold(filterMode, sortedValues,
                                                      Threshold')]>>]_vars

\* C3 amended: every pointer-move delivered while Dragging, while the chart is
\* rendered (values non-empty) and holds an <svg>, invokes the provided
\* onThresholdChange exactly once, in the move step, with (value, count):
\* value the threshold computed from the pointer position and count =
\* getCountAtThreshold(filterMode, sortedValues, value).
C3_MoveOverChartReports ==
    [][(/\ ev'.type = "mousemove" /\ Dragging /\ onThresholdChange # NoCallback
        /\ values # << >> /\ ev'.svg)
        => LET value == newThreshold(minValue, maxValue, logScale,
                                     percentage(ev'.clientX, ev'.left, ev'.width))
           IN  /\ thresholdQ' = <<value>>
               /\ out' = <<[cb |-> onThresholdChange, threshold |-> value,
                            count |-> getCountAtThreshold(filterMode, SortAsc(values),
                                                          value)]>>]_vars

\* C3 witness: a move during a drag reported a threshold that differs from the
\* rendered one, with a count that differs from the displayed one, before any
\* pointer-up
C3_Witness ==
    /\ Dragging /\ ev.type = "mousemove" /\ ev.svg
    /\ Len(out) = 1 /\ thresholdQ # << >>
    /\ out[1].threshold = thresholdQ[1] /\ thresholdQ[1] # threshold
    /\ out[1].count # currentCount /\ out[1].count > 0

\* C4: on a pointer-move while Dragging over a rectangle of left edge L and
\* width W > 0, in linear mode, the new threshold is
\* min + clamp((x - L) / W, 0, 1) * (max - min), for every x.
C4_LinearThresholdFromClampedFraction ==
    [][(/\ ev'.type = "mousemove" /\ Dragging /\ values # << >>
        /\ ev'.svg /\ ev'.width > 0 /\ ~logScale)
        => thresholdQ' = <<LinearValue(minValue, maxValue,
                             ClampedFraction(ev'.clientX, ev'.left, ev'.width))>>]_vars

\* C5: the threshold changes, and onThresholdChange is called, only in a
\* pointer-move step taken while isDraggingRef is true; handleMouseUp clears
\* that flag and only handleMouseDown sets it again.
C5_ThresholdChangesOnlyInDragMove ==
    [][/\ (Threshold' # Threshold \/ out' # << >>)
            => (ev'.type = "mousemove" /\ isDraggingRef /\ moveListeners # << >>)
       /\ (ev'.type = "mouseup" /\ upListeners # << >>) => ~isDraggingRef'
       /\ (~isDraggingRef /\ isDraggingRef') => ev'.type = "mousedown"
       /\ threshold' # threshold => (ev'.type \notin {"mousedown", "mouseup", "mousemove"}
                                     /\ thresholdQ = <<threshold'>>)]_vars

\* C5 witness: a pointer-move that arrives after the pointer-up, while the
\* listeners of the finished drag are still registered, and changes nothing
C5_Witness ==
    /\ mounted /\ ~isDraggingRef /\ moveListeners # << >>
    /\ ev.type = "mousemove" /\ ev.svg /\ ev.width > 0
    /\ values # << >> /\ out = << >>

\* C6: once the component is unmounted no mousemove or mouseup listener of it
\* is registered on window, and no pointer event delivered afterwards calls
\* onThresholdChange or changes the threshold.
C6_UnmountReleasesListeners ==
    [][~mounted'
        => /\ moveListeners' = << >> /\ upListeners' = << >>
           /\ out' = << >>
           /\ Threshold' = Threshold /\ threshold' = threshold]_vars

\* C6 witness: a pointer-move over the plot delivered after an unmount that
\* happened in the middle of a drag
C6_Witness ==
    /\ ~mounted /\ isDragging /\ isDraggingRef
    /\ ev.type = "mousemove" /\ ev.svg /\ ev.width > 0

\* ======================================================================
\* Properties of the distribution builder (checked under SpecDist)
\* ======================================================================
DistReturned == pPc = "done" /\ pArgs.fn = "distribution"
Given == pArgs.given
AllEqual(vals) == \A i, j \in 1 .. Len(vals) : vals[i] = vals[j]
Occurrences(vals, v) == Cardinality({i \in 1 .. Len(vals) : vals[i] = v})
Elements(vals) == {vals[i] : i \in 1 .. Len(vals)}
SmallestOf(vals) == CHOOSE v \in Elements(vals) : \A i \in 1 .. Len(vals) : v <= vals[i]
LargestOf(vals) == CHOOSE v \in Elements(vals) : \A i \in 1 .. Len(vals) : vals[i] <= v
NumberAtMost(vals, t) == Cardinality({i \in 1 .. Len(vals) : vals[i] * t.d <= t.n})
Smaller(a, b) == IF a < b THEN a ELSE b

\* C11: for every non-empty collection of n <= 50 values that are not all
\* equal, the series has exactly n points and point i (0-based) is
\* (sorted[i], i + 1), sorted being the ascending sort of the input.
C11_ExactPointsOnePerElement ==
    (DistReturned /\ Len(Given) >= 1 /\ Len(Given) <= ExactLimit /\ ~AllEqual(Given))
    => /\ Len(pRet.chartData) = Len(Given)
       /\ \A i \in 0 .. Len(Given) - 1 :
            pRet.chartData[i + 1] = [value |-> Rat(SortAsc(Given)[i + 1], 1), count |-> i + 1]

\* an unsorted collection with a duplicate, and one of exactly 50 values
C11_Witness ==
    /\ DistReturned
    /\ \/ Given = <<2, 0, 2>> /\ Len(pRet.chartData) = 3
       \/ Len(Given) = ExactLimit /\ ~AllEqual(Given) /\ Len(pRet.chartData) = ExactLimit

\* the series returned for a long collection: min(100, n) + 1 points at the
\* boundaries min + i * (max - min) / min(100, n), each counting the input
\* elements <= its boundary
BinnedSeriesReturned ==
    (DistReturned /\ Len(Given) > ExactLimit /\ ~AllEqual(Given))
    => \E bc \in {Smaller(MaxBins, Len(Given))}, lo \in {SmallestOf(Given)},
          hi \in {LargestOf(Given)} :
          /\ Len(pRet.chartData) = bc + 1
          /\ \A i \in 0 .. bc :
               \E boundary \in {Rat(lo * bc + i * (hi - lo), bc)} :
                  /\ pRet.chartData[i + 1].value = boundary
                  /\ pRet.chartData[i + 1].count = NumberAtMost(Given, boundary)

ExactMode(vals) == Len(vals) >= 1 /\ Len(vals) <= ExactLimit /\ ~AllEqual(vals)

\* C13: for every input collection (empty, all equal, n <= 50, n > 50) the
\* cumulative count is non-decreasing along the returned series, and in the
\* exact-points mode the count of the final point is the number of input
\* elements.
C13_CountsNonDecreasing ==
    DistReturned
    => /\ \A i \in 1 .. Len(pRet.chartData) - 1 :
            pRet.chartData[i].count <= pRet.chartData[i + 1].count
       /\ ExactMode(Given) => pRet.chartData[Len(pRet.chartData)].count = Len(Given)

\* an exact series whose last point counts all three elements
C13_Witness ==
    /\ DistReturned /\ ExactMode(Given) /\ Len(Given) = 3
    /\ pRet.chartData[1].count = 1 /\ pRet.chartData[3].count = 3

\* C14: for every input collection, sortedValues is an ascending permutation
\* of the input (same multiset, sorted[i] <= sorted[i+1]), the caller's array
\* is left as it was given, and minValue is the first element, maxValue the
\* last, minValue <= maxValue.
C14_SortedPermutationInputUntouched ==
    /\ pArgs.fn = "distribution" => pArgs.values = Given
    /\ DistReturned
       => /\ Len(pRet.sortedValues) = Len(Given)
          /\ \A i \in 1 .. Len(Given) - 1 : pRet.sortedValues[i] <= pRet.sortedValues[i + 1]
          /\ \A v \in Elements(Given) \cup Elements(pRet.sortedValues) :
                Occurrences(pRet.sortedValues, v) = Occurrences(Given, v)
          /\ Len(Given) >= 1
             => /\ pRet.minValue = pRet.sortedValues[1]
                /\ pRet.maxValue = pRet.sortedValues[Len(Given)]
          /\ pRet.minValue <= pRet.maxValue

\* a collection given out of order, with a duplicate
C14_Witness ==
    /\ DistReturned /\ Given = <<2, 0, 2>> /\ pArgs.values = <<2, 0, 2>>
    /\ pRet.sortedValues = <<0, 2, 2>> /\ pRet.minValue = 0 /\ pRet.maxValue = 2

\* ======================================================================
\* Properties of the degenerate inputs (checked under SpecDerived)
\* ======================================================================
Used(fn) == pPc = "used" /\ pLoc.fn = fn

\* C15: when all input values are identical (n >= 1) the series is exactly
\* [(min, 0), (min, n)], thresholdToPercentage returns 0 for every threshold
\* and either scale mode, and computeTicks returns no ticks for every width
\* and requested count.
C15_AllEqualIsDegenerate ==
    (DistAvailable /\ Len(Given) >= 1 /\ AllEqual(Given))
    => /\ pRet.chartData = <<[value |-> Rat(Given[1], 1), count |-> 0],
                             [value |-> Rat(Given[1], 1), count |-> Len(Given)]>>
       /\ Used("thresholdToPercentage") => pLoc.ret = Rat(0, 1)
       /\ Used("computeTicks") => pLoc.ret.undefined

\* several equal positive values, the percentage asked on the log scale
C15_Witness ==
    /\ DistAvailable /\ Len(Given) >= 2 /\ AllEqual(Given) /\ Given[1] > 0
    /\ Used("thresholdToPercentage") /\ pLoc.logScale /\ pLoc.t.n > 0
    /\ pLoc.ret = Rat(0, 1)

\* C16: for an empty collection getCountAtThreshold returns 0 for every mode
\* and threshold, the series is empty with minValue = maxValue = 0, and
\* computeTicks yields no ticks; every operation returns a value.
C16_EmptyInputYieldsNothing ==
    (DistAvailable /\ Len(Given) = 0)
    => /\ pRet.chartData = << >> /\ pRet.minValue = 0 /\ pRet.maxValue = 0
       /\ Used("getCountAtThreshold") => pLoc.ret = 0
       /\ Used("computeTicks") => pLoc.ret = NoTickList

\* the ticks memo of an empty collection with five ticks requested
C16_Witness ==
    /\ DistAvailable /\ Len(Given) = 0 /\ pRet.chartData = << >>
    /\ Used("computeTicks") /\ pLoc.xAxisTicks = <<5>> /\ pLoc.ret.undefined

\* ======================================================================
\* Properties of the scale and tick functions (checked under SpecScale)
\* ======================================================================
Returned(fn) == pPc = "done" /\ pArgs.fn = fn

\* 0 <= r <= 100; a percentage kept by its arguments lies in that range
\* exactly when its threshold lies between min and max
WithinPercentRange(r) ==
    IF r.k = "lin" THEN 0 <= r.n /\ r.n <= 100 * r.d
    ELSE \/ r.min * r.t.d <= r.t.n /\ r.t.n <= r.max * r.t.d
         \/ r.max * r.t.d <= r.t.n /\ r.t.n <= r.min * r.t.d

\* C17: for all min, max, value and either scale mode thresholdToPercentage
\* returns a result within [0, 100]; it returns 0 when max == min, and
\* (value - min) / (max - min) * 100 in linear mode.
C17_PercentageWithinZeroToHundred ==
    Returned("thresholdToPercentage")
    => /\ WithinPercentRange(pRet.value)
       /\ pArgs.max = pArgs.min => pRet.value = Rat(0, 1)
       /\ (~pArgs.logScale /\ pArgs.max > pArgs.min)
          => pRet.value = Rat(100 * (pArgs.t.n - pArgs.min * pArgs.t.d),
                              pArgs.t.d * (pArgs.max - pArgs.min))

\* the drag handler and thresholdToPercentage take the same branch for the
\* value v of the range [pArgs.min, pArgs.max]
SameBranch(v) ==
    (pArgs.logScale /\ pArgs.min > 0)
    <=> (pArgs.logScale /\ pArgs.min > 0 /\ pArgs.max > 0 /\ Positive(v))

RoundOfWidth(w) == CHOOSE r \in 0 .. w : PxPerTick * (2 * r - 1) <= 2 * w /\ 2 * w < PxPerTick * (2 * r + 1)

\* the requested count when one is given, otherwise max(6, round(width / 40))
ExpectedCount(w, x) ==
    IF x # NoTicks THEN x[1]
    ELSE IF RoundOfWidth(w) > AutoMinTicks THEN RoundOfWidth(w) ELSE AutoMinTicks

\* C19: for min != max computeTicks resolves the tick count to the requested
\* count when one is given and otherwise to max(6, round(width / 40)); it
\* returns exactly that many values when the count is >= 2 and no ticks when
\* it is < 2; without a requested count the length is at least 6 and does
\* not decrease when the width grows.
C19_TickCountResolution ==
    (Returned("computeTicks") /\ pArgs.minValue # pArgs.maxValue)
    => \E count \in {ExpectedCount(pArgs.containerWidth, pArgs.xAxisTicks)} :
          /\ count >= 2 => /\ ~pRet.value.undefined
                           /\ Len(pRet.value.ticks) = count
          /\ count < 2 => pRet.value = NoTickList
          /\ pArgs.xAxisTicks = NoTicks
             => /\ Len(pRet.value.ticks) >= AutoMinTicks
                /\ \A w \in Widths :
                      w <= pArgs.containerWidth
                      => Len(computeTicks(pArgs.minValue, pArgs.maxValue, pArgs.logScale,
                                          w, NoTicks).ticks) <= Len(pRet.value.ticks)

\* a container wide enough for more than six automatic ticks
C19_Witness ==
    /\ Returned("computeTicks") /\ pArgs.minValue # pArgs.maxValue
    /\ pArgs.xAxisTicks = NoTicks /\ pArgs.containerWidth = 20 * WidthSteps
    /\ Len(pRet.value.ticks) > AutoMinTicks

Difference(a, b) == Rat(a.n * b.d - b.n * a.d, a.d * b.d)

\* C20: for min < max and a resolved count k >= 2 in linear mode the ticks
\* are strictly increasing, evenly spaced with step (max - min) / (k - 1),
\* the first tick is min and the last tick is max.
C20_LinearTicksEvenlySpaced ==
    (/\ Returned("computeTicks") /\ pArgs.minValue < pArgs.maxValue /\ ~pArgs.logScale
     /\ ExpectedCount(pArgs.containerWidth, pArgs.xAxisTicks) >= 2)
    => \E k \in {ExpectedCount(pArgs.containerWidth, pArgs.xAxisTicks)} :
          /\ Len(pRet.value.ticks) = k
          /\ pRet.value.ticks[1] = Rat(pArgs.minValue, 1)
          /\ pRet.value.ticks[k] = Rat(pArgs.maxValue, 1)
          /\ \A i \in 1 .. k - 1 :
                /\ Difference(pRet.value.ticks[i + 1], pRet.value.ticks[i])
                     = Rat(pArgs.maxValue - pArgs.minValue, k - 1)
                /\ Difference(pRet.value.ticks[i + 1], pRet.value.ticks[i]).n > 0

\* five requested ticks over a range the step does not divide
C20_Witness ==
    /\ Returned("computeTicks") /\ ~pArgs.logScale /\ pArgs.xAxisTicks = <<5>>
    /\ pArgs.minValue = 0 /\ pArgs.maxValue = 3
    /\ Len(pRet.value.ticks) = 5 /\ pRet.value.ticks[2] = Rat(3, 4)

\* ======================================================================
\* Properties of the drag over degenerate inputs (checked under Spec)
\* ======================================================================
\* a pointer-move over the plot reaches the handler of a drag in progress
DragMoveOverPlot == ev'.type = "mousemove" /\ Dragging /\ values # << >> /\ ev'.svg

\* C21 as stated: during a drag over a plotting rectangle of width 0 the
\* fraction computation raises no error and the fraction used is 1
\* (threshold = max) for every pointer position x.
C21_ZeroWidthFractionIsOne ==
    [][(DragMoveOverPlot /\ ev'.width = 0)
        => thresholdQ' = <<Rat(maxValue, 1)>>]_vars

\* C21 amended: during a drag over a plotting rectangle of width 0 the
\* fraction computation raises no error; the fraction used is 1
\* (threshold = max) for every pointer position at or right of the
\* rectangle's left edge, and 0 (threshold = min) for every position left
\* of it.
C21_ZeroWidthFractionBySide ==
    [][(DragMoveOverPlot /\ ev'.width = 0)
        => thresholdQ' = <<IF ev'.clientX >= ev'.left THEN Rat(maxValue, 1)
                           ELSE Rat(minValue, 1)>>]_vars

\* a move left of a zero-width rectangle set the threshold to min < max
C21_Witness ==
    /\ Dragging /\ values # << >> /\ minValue < maxValue
    /\ ev.type = "mousemove" /\ ev.svg /\ ev.width = 0 /\ ev.clientX < ev.left
    /\ thresholdQ = <<Rat(minValue, 1)>>

\* ======================================================================
\* Properties of the scale fallback (checked under SpecScale)
\* ======================================================================
\* the drag handler's mapping has produced the value of the call's fraction
FractionMapped == pArgs.fn = "fractionThenPercentage" /\ pPc \in {"mapped", "done"}

\* C22: when logarithmic mode is requested but min <= 0, thresholdToPercentage,
\* computeTicks and the drag handler's position-to-value conversion each take
\* the linear branch: the result is that of the same call with logScale =
\* false, and it is a number (no error).
C22_NonPositiveMinFallsBackToLinear ==
    /\ (Returned("thresholdToPercentage") /\ pArgs.logScale /\ pArgs.min <= 0)
       => /\ pRet.value = thresholdToPercentage(pArgs.min, pArgs.max, pArgs.t, FALSE)
          /\ pRet.value.k = "lin"
    /\ (Returned("computeTicks") /\ pArgs.logScale /\ pArgs.minValue <= 0)
       => /\ pRet.value = computeTicks(pArgs.minValue, pArgs.maxValue, FALSE,
                                       pArgs.containerWidth, pArgs.xAxisTicks)
          /\ \A i \in 1 .. Len(pRet.value.ticks) : pRet.value.ticks[i].k = "lin"
    /\ (FractionMapped /\ pArgs.logScale /\ pArgs.min <= 0)
       => /\ pLoc.value = newThreshold(pArgs.min, pArgs.max, FALSE, pArgs.p)
          /\ pLoc.value.k = "lin"

\* a fraction inside (0, 1) of a range starting at 0, mapped with log requested
C22_Witness ==
    /\ FractionMapped /\ pArgs.logScale /\ pArgs.min = 0 /\ pArgs.max = 3
    /\ pArgs.p = Rat(1, 2) /\ pLoc.value = Rat(3, 2)

\* ======================================================================
\* Properties of the default comparison (checked under SpecFn)
\* ======================================================================
\* C23: for every non-empty sorted sequence s and every t, getCountAtThreshold
\* called with a mode outside {lt, lte, gt, gte} returns what mode lte
\* returns, upperBound(s, t): the number of elements <= t.
C23_UnknownModeCountsLikeLte ==
    (fnPc = "done" /\ fnKind \in CallModes \ FilterModes /\ Len(fnArr) >= 1)
    => /\ fnRet = getCountAtThreshold("lte", fnArr, fnX)
       /\ fnRet = upperBound(fnArr, fnX)
       /\ fnRet = NumberAtMost(fnArr, fnX)

\* an unknown mode on a sequence holding the threshold twice and a larger value
C23_Witness ==
    /\ fnPc = "done" /\ fnKind = "eq"
    /\ fnArr = <<1, 1, 2>> /\ fnX = Rat(1, 1) /\ fnRet = 2

\* ======================================================================
\* Properties of the values a drag reports (checked under SpecMove)
\* ======================================================================
\* C24: after every pointer-move processed while Dragging (min <= max) the
\* threshold satisfies min <= threshold <= max and the count passed to
\* onThresholdChange satisfies 0 <= count <= |values|, for every pointer
\* position, rectangle and filter mode.
C24_ReportedThresholdAndCountInRange ==
    (Returned("handleMouseMove") /\ pLoc.minValue <= pLoc.maxValue)
    => /\ LessEq(pLoc.minValue, pRet.threshold)
       /\ ~Less(pLoc.maxValue, pRet.threshold)
       /\ 0 <= pRet.count /\ pRet.count <= Len(pArgs.values)

\* ======================================================================
\* Properties of the listener registration (checked under Spec)
\* ======================================================================
PropChanges == {"values", "filterMode", "logScale", "onThresholdChange"}

\* C25: in every reachable state at most one mousemove and at most one
\* mouseup listener of the component are registered on window, and only
\* while the isDragging state is true, also when the handler identity
\* changes in the middle of a drag; a pointer-down while Dragging and a
\* pointer-up while Idle add or remove nothing, and a move handler that runs
\* after the pointer-up, before the listeners are removed, does nothing
\* because isDraggingRef is false.
C25_AtMostOneListenerPairWhileDragging ==
    [][/\ Len(moveListeners') <= 1 /\ Len(upListeners') <= 1
       /\ (moveListeners' # << >> \/ upListeners' # << >>) => (mounted' /\ isDragging')
       /\ moveListeners' # << >> => moveListeners' = <<handleMouseMove'>>
       /\ ev'.type \in {"mousedown", "mouseup"}
          => (moveListeners' = moveListeners /\ upListeners' = upListeners)
       /\ (ev'.type = "render" /\ isDragging' = isDragging)
          => (moveListeners' = moveListeners /\ upListeners' = upListeners)
       /\ (ev'.type = "mousemove" /\ ~isDraggingRef)
          => (out' = << >> /\ thresholdQ' = thresholdQ)]_vars

\* a prop changed in the middle of a drag: the one registered mousemove
\* listener is the handler of the new render
C25_Witness ==
    /\ Dragging /\ ev.type \in PropChanges
    /\ moveListeners = <<handleMouseMove>> /\ upListeners = <<"handleMouseUp">>
    /\ effectCleanup.move = <<handleMouseMove>>

====
